---- MODULE Spec2Model ----
(***************************************************************************)
(* Model of flowlogs_reader/flowlogs_reader.py: the FlowRecord codec        *)
(* (parsing a flow-log line, serialising it back, equality and hashing),    *)
(* the CloudWatch Logs reader (FlowLogsReader) and the S3 archive reader    *)
(* (S3FlowLogsReader).                                                      *)
(*                                                                         *)
(* Text is modelled character by character: a Python str is a sequence of   *)
(* one-character strings.  A Python int is unbounded, so it is kept as two  *)
(* limbs, value = hi * 1000 + lo, with a sign.                              *)
(***************************************************************************)
EXTENDS Integers, Sequences, FiniteSets, TLC

VARIABLES
    message,    \* codec: the line handed to FlowRecord.from_message
    record,     \* codec: outcome of FlowRecord.from_message(message)
    text,       \* codec: outcome of record.to_message()
    reparsed,   \* codec: outcome of FlowRecord.from_message(text)
    stage,      \* codec: which of the calls above have been made
    record_set, \* set: the elements of a Python set of FlowRecords, in insertion order
    inserted,   \* set: which of the SetLines were parsed and added to the set, in order
    compared,   \* set: the last comparison made with == and its outcome
    pages,      \* logs: the pages the paginator delivers, each a sequence of events
    fault,      \* logs: what the paginator raises when asked for the page after the last
    position,   \* logs: <<page, event>> of the event _read_streams yielded last
    iterator,   \* logs: "suspended" while the generator can be resumed, else "closed"
    received,   \* logs: the records __next__ has returned to the caller, in order
    outcome,    \* logs: how the last __next__ call ended
    raised,     \* logs: TRUE once the paginator has raised its fault
    thrown,     \* logs: the exception a __next__ call has propagated to the caller
    bucket,     \* s3: the accounts, regions, listing pages and file lines in the bucket
    reader,     \* s3: start_time, end_time, include_accounts, include_regions, and
                \*     whether the interpreter is one of Python 3.7 or later (PEP 479)
    frame,      \* s3: where the generators under _read_streams stand
    resumed,    \* s3: TRUE while a __next__ call is running the generators
    calls,      \* s3: the client calls issued and the lines yielded, in order
    records,    \* s3: the records __next__ has returned to the caller, in order
    returned,   \* s3: how the last __next__ call ended
    handles,    \* s3: how many fetched bodies are open
    key_fields, \* aggregation: the field names the records are grouped by
    consumed,   \* aggregation: the records taken from the input so far, in order
    flow_table  \* aggregation: the summary kept for each key tuple seen so far

codec_vars == <<message, record, text, reparsed, stage>>
set_vars == <<record_set, inserted, compared>>
logs_vars == <<pages, fault, position, iterator, received, outcome, raised, thrown>>

s3_vars == <<bucket, reader, frame, resumed, calls, records, returned, handles>>

agg_vars == <<key_fields, consumed, flow_table>>

vars == <<codec_vars, set_vars, logs_vars, s3_vars, agg_vars>>

----------------------------------------------------------------------------
(* Bounds *)

\* a codec input line differs from the base line in at most MaxDiff tokens
MaxDiff == 2

\* at most MaxInserts records are added to the record set
MaxInserts == 4

\* the number of values of the stand-in hash
HashMod == 5

\* the paginator delivers at most MaxPages pages of at most MaxEvents events
MaxPages == 2
MaxEvents == 2

----------------------------------------------------------------------------
(* Python values *)

None == [t |-> "None"]
Str(s) == [t |-> "str", s |-> s]
PyInt(neg, hi, lo) == [t |-> "int", neg |-> neg /\ (hi # 0 \/ lo # 0), hi |-> hi, lo |-> lo]
DateTime(sec, usec) == [t |-> "datetime", sec |-> sec, usec |-> usec]

\* the Python int of a machine-sized integer
PyIntOf(n) ==
    LET m == IF n < 0 THEN 0 - n ELSE n
    IN  PyInt(n < 0, m \div 1000, m % 1000)

\* the machine-sized integer of a Python int (only taken of values that fit)
IntValue(x) == (IF x.neg THEN 0 - 1 ELSE 1) * (x.hi * 1000 + x.lo)

\* x > m for a Python int x and a non-negative machine-sized m
GreaterThan(x, m) ==
    /\ ~x.neg
    /\ \/ x.hi > m \div 1000
       \/ x.hi = m \div 1000 /\ x.lo > m % 1000

\* bool(x)
Truthy(x) ==
    CASE x.t = "None" -> FALSE
      [] x.t = "int" -> x.hi # 0 \/ x.lo # 0
      [] x.t = "str" -> x.s # <<>>
      [] OTHER -> TRUE

Digits == <<"0", "1", "2", "3", "4", "5", "6", "7", "8", "9">>
IsDigit(c) == \E d \in 1..10 : Digits[d] = c
DigitVal(c) == (CHOOSE d \in 1..10 : Digits[d] = c) - 1

Whitespace == {" ", "\t", "\n", "\r"}

\* str.split() without arguments: the maximal runs of non-whitespace
\* characters, in order
split(s) ==
    LET n == Len(s)
        starts == {i \in 1..n : s[i] \notin Whitespace /\ (i = 1 \/ s[i - 1] \in Whitespace)}
        ends == {j \in 1..n : s[j] \notin Whitespace /\ (j = n \/ s[j + 1] \in Whitespace)}
        Nth(S, k) == CHOOSE i \in S : Cardinality({j \in S : j <= i}) = k
    IN  [k \in 1..Cardinality(starts) |-> SubSeq(s, Nth(starts, k), Nth(ends, k))]

\* sep.join(parts)
RECURSIVE JoinFrom(_, _, _)
JoinFrom(sep, parts, i) ==
    IF i > Len(parts) THEN <<>>
    ELSE IF i = Len(parts) THEN parts[i]
    ELSE parts[i] \o sep \o JoinFrom(sep, parts, i + 1)

join(sep, parts) == JoinFrom(sep, parts, 1)

\* the value of a run of decimal digits, in limbs
RECURSIVE Magnitude(_, _, _, _)
Magnitude(ds, i, hi, lo) ==
    IF i > Len(ds) THEN <<hi, lo>>
    ELSE LET t == lo * 10 + DigitVal(ds[i])
         IN  Magnitude(ds, i + 1, hi * 10 + t \div 1000, t % 1000)

\* a conversion that takes the placeholder for zero instead of raising
int_placeholder(tok) ==
    LET signed == tok # <<>> /\ tok[1] \in {"+", "-"}
        body == IF signed THEN Tail(tok) ELSE tok
    IN  IF body # <<>> /\ \E i \in 1..Len(body) : ~IsDigit(body[i])
        THEN [exc |-> "ValueError", val |-> None]
        ELSE LET m == Magnitude(body, 1, 0, 0)
             IN  [exc |-> "none", val |-> PyInt(signed /\ tok[1] = "-", m[1], m[2])]

\* int(tok): an optional sign and at least one decimal digit, else ValueError
int(tok) ==
    LET signed == tok # <<>> /\ tok[1] \in {"+", "-"}
        body == IF signed THEN Tail(tok) ELSE tok
    IN  IF body = <<>> \/ \E i \in 1..Len(body) : ~IsDigit(body[i])
        THEN [exc |-> "ValueError", val |-> None]
        ELSE LET m == Magnitude(body, 1, 0, 0)
             IN  [exc |-> "none", val |-> PyInt(signed /\ tok[1] = "-", m[1], m[2])]

RECURSIVE DecimalDigits(_)
DecimalDigits(n) ==
    IF n < 10 THEN <<Digits[n + 1]>>
    ELSE Append(DecimalDigits(n \div 10), Digits[(n % 10) + 1])

\* str(x)
str(x) ==
    CASE x.t = "int" ->
            (IF x.neg THEN <<"-">> ELSE <<>>) \o
            (IF x.hi > 0
             THEN DecimalDigits(x.hi) \o
                  <<Digits[(x.lo \div 100) + 1], Digits[((x.lo \div 10) % 10) + 1],
                    Digits[(x.lo % 10) + 1]>>
             ELSE DecimalDigits(x.lo))
      [] x.t = "str" -> x.s
      [] OTHER -> <<"N", "o", "n", "e">>

----------------------------------------------------------------------------
(* FlowRecord *)

EPOCH_32_MAX == 2147483647

NODATA == <<"N", "O", "D", "A", "T", "A">>
SKIPDATA == <<"S", "K", "I", "P", "D", "A", "T", "A">>

slots == <<"version", "account_id", "interface_id", "srcaddr", "dstaddr",
           "srcport", "dstport", "protocol", "packets", "bytes",
           "start", "end", "action", "log_status">>

Raise(e) == [exc |-> e, rec |-> None]
Return(r) == [exc |-> "none", rec |-> r]

\* the boundary value itself taken for milliseconds
Seconds_inclusive(v) ==
    IF GreaterThan(v, EPOCH_32_MAX - 1)
    THEN [sec |-> v.hi, usec |-> v.lo * 1000]
    ELSE [sec |-> IntValue(v), usec |-> 0]

\* start = int(fields[10]); if start > EPOCH_32_MAX: start /= 1000
\* the number handed to utcfromtimestamp: whole seconds and microseconds
Seconds(v) ==
    IF GreaterThan(v, EPOCH_32_MAX)
    THEN [sec |-> v.hi, usec |-> v.lo * 1000]
    ELSE [sec |-> IntValue(v), usec |-> 0]

utcfromtimestamp(x) == DateTime(x.sec, x.usec)

\* timegm(dt.utctimetuple()): the time tuple carries no microseconds
timegm(dt) == dt.sec

\* only one of the two sentinel statuses recognised
IsSentinel_nodata_only(status) == status = NODATA

\* self.log_status in (NODATA, SKIPDATA)
IsSentinel(status) == status \in {NODATA, SKIPDATA}

\* FlowRecord.__init__(self, event)
FlowRecord(event) ==
    LET fields == split(event.message)
        n == Len(fields)
        sentinel == IsSentinel(fields[14])
        start == utcfromtimestamp(Seconds(int(fields[11]).val))
        end == utcfromtimestamp(Seconds(int(fields[12]).val))
    IN  IF n < 1 THEN Raise("IndexError")
        ELSE IF int(fields[1]).exc # "none" THEN Raise("ValueError")
        ELSE IF n < 11 THEN Raise("IndexError")
        ELSE IF int(fields[11]).exc # "none" THEN Raise("ValueError")
        ELSE IF n < 12 THEN Raise("IndexError")
        ELSE IF int(fields[12]).exc # "none" THEN Raise("ValueError")
        ELSE IF n < 14 THEN Raise("IndexError")
        ELSE IF sentinel
        THEN Return([version |-> int(fields[1]).val,
                     account_id |-> Str(fields[2]),
                     interface_id |-> Str(fields[3]),
                     srcaddr |-> None, dstaddr |-> None,
                     srcport |-> None, dstport |-> None,
                     protocol |-> None, packets |-> None, bytes |-> None,
                     start |-> start, end |-> end,
                     action |-> None,
                     log_status |-> Str(fields[14])])
        ELSE IF \E i \in 6..10 : int(fields[i]).exc # "none" THEN Raise("ValueError")
        ELSE Return([version |-> int(fields[1]).val,
                     account_id |-> Str(fields[2]),
                     interface_id |-> Str(fields[3]),
                     srcaddr |-> Str(fields[4]), dstaddr |-> Str(fields[5]),
                     srcport |-> int(fields[6]).val, dstport |-> int(fields[7]).val,
                     protocol |-> int(fields[8]).val, packets |-> int(fields[9]).val,
                     bytes |-> int(fields[10]).val,
                     start |-> start, end |-> end,
                     action |-> Str(fields[13]),
                     log_status |-> Str(fields[14])])

\* FlowRecord.from_message(cls, message)
from_message(m) == FlowRecord([message |-> m])

\* the transform to_message applies to one attribute
transform(attr, x) ==
    IF attr \in {"start", "end"}
    THEN str(PyIntOf(timegm(x)))
    ELSE IF Truthy(x) THEN str(x) ELSE <<"-">>

\* FlowRecord.to_message(self)
to_message(r) ==
    join(<<" ">>, [i \in 1..Len(slots) |-> transform(slots[i], r[slots[i]])])

\* getattr(o, x) succeeds
HasAttr(o, x) == x \in DOMAIN o

\* a comparison that leaves out the action slot
eq_without_action(self, other) ==
    \A i \in 1..Len(slots) :
        slots[i] # "action" =>
            (HasAttr(other, slots[i]) /\ self[slots[i]] = other[slots[i]])

\* FlowRecord.__eq__(self, other): all slots compare equal; an object without
\* one of the attributes raises AttributeError inside, which gives False
eq(self, other) ==
    \A i \in 1..Len(slots) :
        HasAttr(other, slots[i]) /\ self[slots[i]] = other[slots[i]]

\* hash(x) of a slot value: a stand-in with HashMod values; like Python's it is
\* a function of the value alone and may collide
HashValue(x) ==
    CASE x.t = "None" -> 0
      [] x.t = "int" -> (x.hi + x.lo + (IF x.neg THEN 1 ELSE 0)) % HashMod
      [] x.t = "str" -> Len(x.s) % HashMod
      [] OTHER -> ((x.sec % HashMod) + x.usec) % HashMod

RECURSIVE HashTuple(_, _)
HashTuple(t, i) ==
    IF i > Len(t) THEN 0
    ELSE (HashValue(t[i]) + 3 * HashTuple(t, i + 1)) % HashMod

\* FlowRecord.__hash__(self): hash(tuple(getattr(self, x) for x in self.__slots__))
hash(self) == HashTuple([i \in 1..Len(slots) |-> self[slots[i]]], 1)

\* set.add(r): r joins the set unless an element with the same hash equals it
SetAdd(s, r) ==
    IF \E i \in 1..Len(s) : hash(s[i]) = hash(r) /\ eq(s[i], r)
    THEN s
    ELSE Append(s, r)

----------------------------------------------------------------------------
(* Codec inputs: the sample lines of the test-suite with up to MaxDiff tokens *)
(* replaced, laid out in one of the Shapes                                    *)

SampleLine1 ==
    <<<<"2">>,
      <<"1", "2", "3", "4", "5", "6", "7", "8", "9", "0", "1", "0">>,
      <<"e", "n", "i", "-", "1", "0", "2", "0", "1", "0", "a", "b">>,
      <<"1", "9", "8", ".", "5", "1", ".", "1", "0", "0", ".", "1">>,
      <<"1", "9", "2", ".", "0", ".", "2", ".", "1">>,
      <<"4", "4", "3">>,
      <<"4", "9", "1", "5", "2">>,
      <<"6">>,
      <<"1", "0">>,
      <<"8", "4", "0">>,
      <<"1", "4", "3", "9", "3", "8", "7", "2", "6", "3">>,
      <<"1", "4", "3", "9", "3", "8", "7", "2", "6", "4">>,
      <<"A", "C", "C", "E", "P", "T">>,
      <<"O", "K">>>>

SampleLine2 ==
    <<<<"2">>,
      <<"1", "2", "3", "4", "5", "6", "7", "8", "9", "0", "1", "0">>,
      <<"e", "n", "i", "-", "1", "a", "2", "b", "3", "c", "4", "d">>,
      <<"-">>,
      <<"-">>,
      <<"-">>,
      <<"-">>,
      <<"-">>,
      <<"-">>,
      <<"-">>,
      <<"1", "4", "3", "1", "2", "8", "0", "8", "7", "6">>,
      <<"1", "4", "3", "1", "2", "8", "0", "9", "3", "4">>,
      <<"-">>,
      <<"N", "O", "D", "A", "T", "A">>>>

SampleLine3 ==
    <<<<"2">>,
      <<"1", "2", "3", "4", "5", "6", "7", "8", "9", "0", "1", "0">>,
      <<"e", "n", "i", "-", "4", "b", "1", "1", "8", "8", "7", "1">>,
      <<"-">>,
      <<"-">>,
      <<"-">>,
      <<"-">>,
      <<"-">>,
      <<"-">>,
      <<"-">>,
      <<"1", "5", "1", "2", "5", "6", "4", "0", "5", "8", "0", "0", "0">>,
      <<"1", "5", "1", "2", "5", "6", "4", "0", "5", "9", "0", "0", "0">>,
      <<"-">>,
      <<"S", "K", "I", "P", "D", "A", "T", "A">>>>

SampleLines == <<SampleLine1, SampleLine2, SampleLine3>>

\* the replacement tokens tried at each of the 14 positions
AltTokens ==
    <<<<<<"0">>, <<"x">>>>,
      <<>>,
      <<<<"e", "n", "i", "-", "1", "0", "2", "0", "1", "0", "c", "d">>>>,
      <<<<"-">>>>,
      <<<<"-">>>>,
      <<<<"0">>, <<"-">>>>,
      <<<<"0">>, <<"-">>>>,
      <<<<"0">>, <<"-">>>>,
      <<<<"0">>, <<"-">>>>,
      <<<<"0">>, <<"-">>>>,
      <<<<"2", "1", "4", "7", "4", "8", "3", "6", "4", "7">>, <<"2", "1", "4", "7", "4", "8", "3", "6", "4", "8">>, <<"1", "5", "1", "2", "5", "6", "4", "0", "5", "8", "0", "0", "0">>, <<"1", "5", "1", "2", "5", "6", "4", "0", "5", "8", "1", "2", "3">>, <<"-">>>>,
      <<<<"2", "1", "4", "7", "4", "8", "3", "6", "4", "7">>, <<"2", "1", "4", "7", "4", "8", "3", "6", "4", "8">>, <<"1", "5", "1", "2", "5", "6", "4", "0", "5", "9", "9", "9", "9">>, <<"x">>>>,
      <<<<"R", "E", "J", "E", "C", "T">>, <<"-">>>>,
      <<<<"O", "K">>, <<"N", "O", "D", "A", "T", "A">>, <<"S", "K", "I", "P", "D", "A", "T", "A">>, <<"n", "o", "d", "a", "t", "a">>>>>>

Shapes == {"exact", "short", "long", "padded"}

\* the line of 14 tokens: sample line b with the tokens at positions S replaced
Tokens(b, S, f) ==
    [i \in 1..14 |-> IF i \in S THEN AltTokens[i][f[i]] ELSE SampleLines[b][i]]

\* the text of a line: single spaces; one token dropped; one token added; or
\* runs of whitespace and a trailing newline, as a line read from a file has
Layout(toks, shape) ==
    CASE shape = "exact" -> join(<<" ">>, toks)
      [] shape = "short" -> join(<<" ">>, SubSeq(toks, 1, 13))
      [] shape = "long" -> join(<<" ">>, Append(toks, <<"-">>))
      [] OTHER -> join(<<" ", "\t">>, toks) \o <<"\n">>

MaxAlts == CHOOSE m \in 0..14 : /\ \A i \in 1..14 : Len(AltTokens[i]) <= m
                                /\ \E i \in 1..14 : Len(AltTokens[i]) = m

\* the ways to replace at most MaxDiff tokens: the positions and, for each, which
\* replacement token
Replacements ==
    UNION { { <<S, f>> : f \in { g \in [S -> 1..MaxAlts] :
                                    \A i \in S : g[i] <= Len(AltTokens[i]) } }
            : S \in { T \in SUBSET (1..14) : Cardinality(T) <= MaxDiff } }

Messages ==
    { Layout(Tokens(b, r[1], r[2]), shape) :
        b \in 1..Len(SampleLines), r \in Replacements, shape \in Shapes }

----------------------------------------------------------------------------
(* The codec as a state machine: parse a line, serialise the record, parse  *)
(* the serialised text again                                                *)

NotCalled == [exc |-> "not called", rec |-> None]

NoComparison == [left |-> None, right |-> None, result |-> FALSE]

\* the codec and the record set before anything is called
IdleCodec ==
    /\ message = <<>>
    /\ record = NotCalled
    /\ text = <<>>
    /\ reparsed = NotCalled
    /\ stage = "idle"

IdleSet ==
    /\ record_set = <<>>
    /\ inserted = <<>>
    /\ compared = NoComparison

NoFault == [type |-> "none", message |-> <<>>]
NoOutcome == [kind |-> "none", exc |-> NoFault]

IdleLogs ==
    /\ pages = <<>>
    /\ fault = NoFault
    /\ position = <<0, 0>>
    /\ iterator = "closed"
    /\ received = <<>>
    /\ outcome = NoOutcome
    /\ raised = FALSE
    /\ thrown = NoFault

IdleS3 ==
    /\ bucket = [accounts |-> <<>>, regions |-> <<>>, listing |-> <<>>, body |-> <<>>]
    /\ reader = [start_time |-> <<>>, end_time |-> <<>>,
                 include_accounts |-> None, include_regions |-> None,
                 pep479 |-> TRUE]
    /\ frame = [pc |-> "done", account |-> 0, region |-> 0, day |-> 0, page |-> 0,
                item |-> 0, line |-> 0]
    /\ resumed = FALSE
    /\ calls = <<>>
    /\ records = <<>>
    /\ returned = NoOutcome
    /\ handles = 0

IdleAgg ==
    /\ key_fields = <<>>
    /\ consumed = <<>>
    /\ flow_table = <<>>

InitCodec ==
    /\ message \in Messages
    /\ record = NotCalled
    /\ text = <<>>
    /\ reparsed = NotCalled
    /\ stage = "input"
    /\ IdleSet
    /\ IdleLogs
    /\ IdleS3
    /\ IdleAgg

\* record = FlowRecord.from_message(message)
FromMessage ==
    /\ stage = "input"
    /\ record' = from_message(message)
    /\ stage' = "parsed"
    /\ UNCHANGED <<message, text, reparsed, set_vars, logs_vars, s3_vars, agg_vars>>

\* text = record.to_message()
ToMessage ==
    /\ stage = "parsed"
    /\ record.exc = "none"
    /\ text' = to_message(record.rec)
    /\ stage' = "serialized"
    /\ UNCHANGED <<message, record, reparsed, set_vars, logs_vars, s3_vars, agg_vars>>

\* reparsed = FlowRecord.from_message(text)
FromMessageAgain ==
    /\ stage = "serialized"
    /\ reparsed' = from_message(text)
    /\ stage' = "reparsed"
    /\ UNCHANGED <<message, record, text, set_vars, logs_vars, s3_vars, agg_vars>>

Next == FromMessage \/ ToMessage \/ FromMessageAgain

Spec == InitCodec /\ [][Next]_vars

----------------------------------------------------------------------------
(* A Python set of FlowRecords: records are added, and compared with ==     *)

Replace(line, i, tok) == [line EXCEPT ![i] = tok]

\* the lines whose records go into the set: the first sample; the same with
\* another action; the same with its start in milliseconds (an equal record
\* from a different line); the NODATA sample; the same with a srcport token
\* (again an equal record)
SetLines ==
    <<join(<<" ">>, SampleLine1),
      join(<<" ">>, Replace(SampleLine1, 13, <<"R", "E", "J", "E", "C", "T">>)),
      join(<<" ">>, Replace(SampleLine1, 11,
                            <<"1", "4", "3", "9", "3", "8", "7", "2", "6", "3", "0", "0", "0">>)),
      join(<<" ">>, SampleLine2),
      join(<<" ">>, Replace(SampleLine2, 6, <<"4", "4", "3">>))>>

\* FlowRecord.from_message of each of the SetLines
SetRecords == [k \in 1..Len(SetLines) |-> from_message(SetLines[k]).rec]

\* an object that is no FlowRecord and has none of its attributes
Ellipsis == [t |-> "ellipsis"]

InitSet ==
    /\ IdleCodec
    /\ IdleSet
    /\ IdleLogs
    /\ IdleS3
    /\ IdleAgg

\* record_set.add(FlowRecord.from_message(SetLines[k]))
Add(k) ==
    /\ Len(inserted) < MaxInserts
    /\ record_set' = SetAdd(record_set, SetRecords[k])
    /\ inserted' = Append(inserted, k)
    /\ compared' = NoComparison
    /\ UNCHANGED <<codec_vars, logs_vars, s3_vars, agg_vars>>

\* element == other, for an element of the set and any object
Compare(i, other) ==
    /\ i \in 1..Len(record_set)
    /\ compared = NoComparison
    /\ compared' = [left |-> record_set[i], right |-> other,
                    result |-> eq(record_set[i], other)]
    /\ UNCHANGED <<codec_vars, record_set, inserted, logs_vars, s3_vars, agg_vars>>

NextSet ==
    \/ \E k \in 1..Len(SetLines) : Add(k)
    \/ \E i \in 1..MaxInserts, k \in 1..Len(SetLines) : Compare(i, SetRecords[k])
    \/ \E i \in 1..MaxInserts : Compare(i, Ellipsis)

SpecSet == InitSet /\ [][NextSet]_vars

----------------------------------------------------------------------------
(* FlowLogsReader: the records of a CloudWatch Logs group, page by page     *)

DUPLICATE_NEXT_TOKEN_MESSAGE ==
    <<"T", "h", "e", " ", "s", "a", "m", "e", " ", "n", "e", "x", "t", " ",
      "t", "o", "k", "e", "n", " ", "w", "a", "s", " ", "r", "e", "c", "e",
      "i", "v", "e", "d", " ", "t", "w", "i", "c", "e">>

\* the message is the signature and nothing else
startswith_exact(s, prefix) == s = prefix

\* the signature is found anywhere in the message
startswith_anywhere(s, prefix) ==
    \E k \in 0..Len(s) :
        k + Len(prefix) <= Len(s) /\ SubSeq(s, k + 1, k + Len(prefix)) = prefix

\* s.startswith(prefix)
startswith(s, prefix) ==
    Len(prefix) <= Len(s) /\ SubSeq(s, 1, Len(prefix)) = prefix

\* the events the log group holds: three well-formed lines and, last, a line
\* one token short
LogEvents ==
    <<[message |-> join(<<" ">>, SampleLine1)],
      [message |-> join(<<" ">>, SampleLine2)],
      [message |-> join(<<" ">>, SampleLine3)],
      [message |-> join(<<" ">>, SubSeq(SampleLine1, 1, 13))]>>

Malformed == Len(LogEvents)

\* FlowRecord(event) of each of the LogEvents
LogRecords == [k \in 1..Len(LogEvents) |-> FlowRecord(LogEvents[k])]

\* what the paginator may raise once its pages are delivered
Faults ==
    { NoFault,
      [type |-> "PaginationError",
       message |-> DUPLICATE_NEXT_TOKEN_MESSAGE \o <<":", " ", "t", "o", "k", "e", "n">>],
      [type |-> "PaginationError", message |-> DUPLICATE_NEXT_TOKEN_MESSAGE],
      [type |-> "PaginationError",
       message |-> <<"o", "t", "h", "e", "r", " ", "e", "r", "r", "o", "r">>],
      [type |-> "PaginationError",
       message |-> <<"E", "r", "r", "o", "r", ":", " ">> \o DUPLICATE_NEXT_TOKEN_MESSAGE],
      [type |-> "PaginationError",
       message |-> SubSeq(DUPLICATE_NEXT_TOKEN_MESSAGE, 1, 19)],
      [type |-> "ClientError",
       message |-> DUPLICATE_NEXT_TOKEN_MESSAGE \o <<":", " ", "t", "o", "k", "e", "n">>] }

RECURSIVE Sum(_, _)
Sum(sizes, n) == IF n = 0 THEN 0 ELSE sizes[n] + Sum(sizes, n - 1)

\* pages of the given sizes: the events are the well-formed LogEvents in
\* rotation, but for the bad-th event overall, which is the malformed one
PagesOf(sizes, bad) ==
    [p \in 1..Len(sizes) |->
        [i \in 1..sizes[p] |->
            LET g == Sum(sizes, p - 1) + i
            IN  IF g = bad THEN Malformed ELSE ((g - 1) % (Malformed - 1)) + 1]]

InitLogs ==
    /\ IdleCodec
    /\ IdleSet
    /\ IdleS3
    /\ IdleAgg
    /\ \E n \in 0..MaxPages : \E sizes \in [1..n -> 0..MaxEvents] :
         \E bad \in 0..Sum(sizes, n) : pages = PagesOf(sizes, bad)
    /\ fault \in Faults
    /\ position = <<0, 0>>
    /\ iterator = "suspended"
    /\ received = <<>>
    /\ outcome = NoOutcome
    /\ raised = FALSE
    /\ thrown = NoFault

\* the events _read_streams has still to yield: those after the position
Remaining ==
    { q \in UNION { {<<p, i>> : i \in 1..Len(pages[p])} : p \in 1..Len(pages) } :
        q[1] > position[1] \/ (q[1] = position[1] /\ q[2] > position[2]) }

\* the first of them, in page order and in-page order
NextEvent ==
    CHOOSE q \in Remaining :
        \A r \in Remaining : q[1] < r[1] \/ (q[1] = r[1] /\ q[2] <= r[2])

StopIteration == [kind |-> "StopIteration", exc |-> NoFault]
Raised(e) == [kind |-> "raise", exc |-> e]

\* except PaginationError as e: the fault is passed over when its message
\* starts with the signature, else raised again; no other type is caught
Swallowed(e) ==
    e.type = "PaginationError" /\ startswith(e.message, DUPLICATE_NEXT_TOKEN_MESSAGE)

\* FlowLogsReader.__next__(): resumes _reader, which resumes _read_streams
\* for the next event and yields FlowRecord(event)
ReaderNext ==
    /\ UNCHANGED <<codec_vars, set_vars, s3_vars, agg_vars, pages, fault>>
    /\ IF iterator = "closed"
       THEN /\ outcome' = StopIteration
            /\ UNCHANGED <<position, iterator, received, raised, thrown>>
       ELSE IF Remaining # {}
       THEN LET q == NextEvent
                r == LogRecords[pages[q[1]][q[2]]]
            IN  /\ position' = q
                /\ raised' = raised
                /\ IF r.exc = "none"
                   THEN /\ received' = Append(received, r.rec)
                        /\ outcome' = [kind |-> "record", exc |-> NoFault]
                        /\ UNCHANGED <<iterator, thrown>>
                   ELSE /\ outcome' = Raised([type |-> r.exc, message |-> <<>>])
                        /\ thrown' = [type |-> r.exc, message |-> <<>>]
                        /\ iterator' = "closed"
                        /\ received' = received
       ELSE /\ iterator' = "closed"
            /\ position' = <<Len(pages), 0>>
            /\ received' = received
            /\ raised' = (fault # NoFault)
            /\ IF fault = NoFault \/ Swallowed(fault)
               THEN outcome' = StopIteration /\ thrown' = thrown
               ELSE outcome' = Raised(fault) /\ thrown' = fault

NextLogs == ReaderNext

SpecLogs == InitLogs /\ [][NextLogs]_vars

----------------------------------------------------------------------------
(* S3FlowLogsReader: the records of the flow-log files archived in a bucket *)

\* a datetime.datetime, as <<year, month, day, hour, minute, second>>;
\* a < b compares them field by field, the year first
Before(a, b) == \E k \in 1..6 : a[k] < b[k] /\ \A j \in 1..(k - 1) : a[j] = b[j]

IsLeap(y) == y % 4 = 0 /\ (y % 100 # 0 \/ y % 400 = 0)

DaysInMonth(y, m) ==
    IF m = 2 THEN (IF IsLeap(y) THEN 29 ELSE 28)
    ELSE IF m \in {4, 6, 9, 11} THEN 30 ELSE 31

\* the day after d, at the same time of day
Tomorrow(d) ==
    IF d[3] < DaysInMonth(d[1], d[2]) THEN [d EXCEPT ![3] = d[3] + 1]
    ELSE IF d[2] < 12 THEN [d EXCEPT ![2] = d[2] + 1, ![3] = 1]
    ELSE [d EXCEPT ![1] = d[1] + 1, ![2] = 1, ![3] = 1]

\* dt.replace(hour=0, minute=0, second=0, microsecond=0)
Midnight(dt) == <<dt[1], dt[2], dt[3], 0, 0, 0>>

\* rrule(freq=DAILY, dtstart=dtstart, until=until): dtstart and every day
\* after it that is not after until
RECURSIVE rrule(_, _)
rrule(dtstart, until) ==
    IF Before(until, dtstart) THEN <<>>
    ELSE <<dtstart>> \o rrule(Tomorrow(dtstart), until)

\* the decimal digits of n, zero-padded to two
TwoDigits(n) == <<Digits[(n \div 10) + 1], Digits[(n % 10) + 1]>>

\* dt.strftime('%Y/%m/%d/'), for a year of four digits
strftime(dt) ==
    DecimalDigits(dt[1]) \o <<"/">> \o TwoDigits(dt[2]) \o <<"/">> \o
    TwoDigits(dt[3]) \o <<"/">>

\* s.rsplit(sep, maxsplit): s cut at its last maxsplit occurrences of sep
rsplit(s, sep, maxsplit) ==
    LET n == Len(s)
        found == {i \in 1..n : s[i] = sep}
        cuts == {i \in found : Cardinality({j \in found : j > i}) < maxsplit}
        c == Cardinality(cuts)
        Nth(k) == CHOOSE i \in cuts : Cardinality({j \in cuts : j <= i}) = k
        lo(k) == IF k = 1 THEN 1 ELSE Nth(k - 1) + 1
        hi(k) == IF k = c + 1 THEN n ELSE Nth(k) - 1
    IN  [k \in 1..(c + 1) |-> SubSeq(s, lo(k), hi(k))]

\* os.path.basename(key): what follows the last '/'
basename(key) == LET parts == rsplit(key, "/", 1) IN parts[Len(parts)]

\* the value of a field of digits; the blank that may pad a day counts nothing
RECURSIVE FieldValue(_)
FieldValue(ds) ==
    IF ds = <<>> THEN 0
    ELSE FieldValue(SubSeq(ds, 1, Len(ds) - 1)) * 10 +
         (IF ds[Len(ds)] = " " THEN 0 ELSE DigitVal(ds[Len(ds)]))

\* the directives of '%Y%m%dT%H%MZ' as the regular expressions strptime
\* compiles them to: %m is 1[0-2]|0[1-9]|[1-9], %d is
\* 3[01]|[12]\d|0[1-9]|[1-9]| [1-9], %H is 2[0-3]|[0-1]\d|\d, %M is [0-5]\d|\d
IsMonth(f) ==
    \/ Len(f) = 2 /\ f[1] = "1" /\ f[2] \in {"0", "1", "2"}
    \/ Len(f) = 2 /\ f[1] = "0" /\ IsDigit(f[2]) /\ f[2] # "0"
    \/ Len(f) = 1 /\ IsDigit(f[1]) /\ f[1] # "0"

IsDay(f) ==
    \/ Len(f) = 2 /\ f[1] = "3" /\ f[2] \in {"0", "1"}
    \/ Len(f) = 2 /\ f[1] \in {"1", "2"} /\ IsDigit(f[2])
    \/ Len(f) = 2 /\ f[1] \in {"0", " "} /\ IsDigit(f[2]) /\ f[2] # "0"
    \/ Len(f) = 1 /\ IsDigit(f[1]) /\ f[1] # "0"

IsHour(f) ==
    \/ Len(f) = 2 /\ f[1] = "2" /\ f[2] \in {"0", "1", "2", "3"}
    \/ Len(f) = 2 /\ f[1] \in {"0", "1"} /\ IsDigit(f[2])
    \/ Len(f) = 1 /\ IsDigit(f[1])

IsMinute(f) ==
    \/ Len(f) = 2 /\ f[1] \in {"0", "1", "2", "3", "4", "5"} /\ IsDigit(f[2])
    \/ Len(f) = 1 /\ IsDigit(f[1])

\* the ways two adjacent directives can share the characters x: the first
\* takes two characters where it can, as the regular expression tries its
\* two-character alternatives first
Shares(x) ==
    CASE Len(x) = 4 -> <<2>>
      [] Len(x) = 3 -> <<2, 1>>
      [] Len(x) = 2 -> <<1>>
      [] OTHER -> <<>>

\* x cut after its first n characters
Cut(x, n) == <<SubSeq(x, 1, n), SubSeq(x, n + 1, Len(x))>>

\* the first of the ways numbered in good, as <<first, second>>; <<>> when
\* there is none
FirstWay(x, good) ==
    IF good = {} THEN <<>>
    ELSE Cut(x, Shares(x)[CHOOSE v \in good : \A u \in good : v <= u])

\* %m%d matched against x
MatchDate(x) ==
    FirstWay(x, {w \in 1..Len(Shares(x)) :
                    /\ IsMonth(Cut(x, Shares(x)[w])[1])
                    /\ IsDay(Cut(x, Shares(x)[w])[2])})

\* %H%M matched against x
MatchTime(x) ==
    FirstWay(x, {w \in 1..Len(Shares(x)) :
                    /\ IsHour(Cut(x, Shares(x)[w])[1])
                    /\ IsMinute(Cut(x, Shares(x)[w])[2])})

\* datetime.strptime(s, '%Y%m%dT%H%MZ'): four digits of year, month and day,
\* the letter T, hour and minute, the letter Z (letters in either case) and
\* nothing after; the date has to exist; else ValueError
strptime(s) ==
    LET n == Len(s)
        Ts == {i \in 5..n : s[i] \in {"T", "t"}}
        Zs == {i \in 5..n : s[i] \in {"Z", "z"}}
        iT == IF Ts = {} THEN 0 ELSE CHOOSE i \in Ts : \A j \in Ts : i <= j
        iZ == IF Zs = {} THEN 0 ELSE CHOOSE i \in Zs : \A j \in Zs : i <= j
        ValueError == [exc |-> "ValueError", dt |-> <<>>]
    IN  IF n < 4 \/ iT = 0 \/ iZ # n \/ iZ < iT
           \/ \E i \in 1..4 : ~IsDigit(s[i])
        THEN ValueError
        ELSE LET md == MatchDate(SubSeq(s, 5, iT - 1))
                 hm == MatchTime(SubSeq(s, iT + 1, iZ - 1))
             IN  IF md = <<>> \/ hm = <<>> THEN ValueError
                 ELSE LET year == FieldValue(SubSeq(s, 1, 4))
                          month == FieldValue(md[1])
                          day == FieldValue(md[2])
                      IN  IF year = 0 \/ day > DaysInMonth(year, month)
                          THEN ValueError
                          ELSE [exc |-> "none",
                                dt |-> <<year, month, day, FieldValue(hm[1]),
                                         FieldValue(hm[2]), 0>>]

\* a Python set
PySet(S) == [t |-> "set", s |-> S]

\* the account ids and region names found in the bucket
AccountIds == <<<<"1", "0">>, <<"1", "1">>>>
RegionNames == <<<<"p", "-", "1">>, <<"p", "-", "2">>>>

\* file names found under a day prefix: with a timestamp before, at and
\* inside the hour from 12:00, at its end and on the eve; without a
\* timestamp; of two segments; with a timestamp of fewer digits; with a
\* date that does not exist; of three segments none of which is a timestamp;
\* a timestamp and nothing else
FileNames ==
    <<<<"a", "_", "2", "0", "1", "5", "0", "8", "1", "2", "T", "1", "1", "5",
          "5", "Z", "_", "h", ".", "g", "z">>,
      <<"a", "_", "2", "0", "1", "5", "0", "8", "1", "2", "T", "1", "2", "0",
            "0", "Z", "_", "h", ".", "g", "z">>,
      <<"t", "e", "s", "t", "_", "f", "i", "l", "e", ".", "l", "o", "g", ".",
            "g", "z">>,
      <<"a", "_", "2", "0", "1", "5", "0", "8", "1", "2", "T", "1", "3", "0",
            "0", "Z", "_", "h", ".", "g", "z">>,
      <<"x", "_", "2", "0", "1", "5", "0", "8", "1", "2", "T", "1", "2", "0",
            "0", "Z">>,
      <<"r", "e", "a", "d", "m", "e">>,
      <<"a", "_", "2", "0", "1", "5", "0", "8", "1", "2", "T", "1", "2", "5",
            "9", "Z", "_", "h", ".", "g", "z">>,
      <<"a", "_", "2", "0", "1", "5", "8", "1", "2", "T", "1", "2", "0", "Z",
            "_", "h", ".", "g", "z">>,
      <<"a", "_", "2", "0", "1", "5", "0", "2", "3", "0", "T", "1", "2", "0",
            "0", "Z", "_", "h", ".", "g", "z">>,
      <<"a", "_", "2", "0", "1", "5", "0", "8", "1", "1", "T", "2", "3", "5",
            "9", "Z", "_", "h", ".", "g", "z">>,
      <<"a", "_", "b", "_", "c">>,
      <<"2", "0", "1", "5", "0", "8", "1", "2", "T", "1", "2", "0", "0", "Z">>>>

\* the pages a listing of a day prefix is delivered in, as indices of
\* FileNames; a page may come without 'Contents'
Listings ==
    { << <<1, 2, 3>> >>,
      << <<2>>, <<7, 4>> >>,
      << <<>> >>,
      << <<6, 5>>, <<2>> >>,
      << <<8, 9, 11>> >>,
      << <<10, 1>>, <<>> >>,
      << <<3, 12, 2>>, <<11, 7>> >> }

\* the lines of the archived files: the header, three well-formed records
\* and a record one token short
ArchiveLines ==
    <<<<"v", "e", "r", "s", "i", "o", "n", " ", "a", "c", "c", "o", "u", "n",
          "t", "_", "i", "d", " ", "i", "n", "t", "e", "r", "f", "a", "c", "e",
          "_", "i", "d", " ", "s", "r", "c", "a", "d", "d", "r", " ", "d", "s",
          "t", "a", "d", "d", "r", " ", "s", "r", "c", "p", "o", "r", "t", " ",
          "d", "s", "t", "p", "o", "r", "t", " ", "p", "r", "o", "t", "o", "c",
          "o", "l", " ", "p", "a", "c", "k", "e", "t", "s", " ", "b", "y", "t",
          "e", "s", " ", "s", "t", "a", "r", "t", " ", "e", "n", "d", " ", "a",
          "c", "t", "i", "o", "n", " ", "l", "o", "g", "_", "s", "t", "a", "t",
          "u", "s">> \o <<"\n">>,
      join(<<" ">>, SampleLine1) \o <<"\n">>,
      join(<<" ">>, SampleLine2) \o <<"\n">>,
      join(<<" ">>, SampleLine3) \o <<"\n">>,
      join(<<" ">>, SubSeq(SampleLine1, 1, 13)) \o <<"\n">>>>

\* FlowRecord({'message': line}) of each of the ArchiveLines
ArchiveRecords ==
    [k \in 1..Len(ArchiveLines) |-> FlowRecord([message |-> ArchiveLines[k]])]

\* the files, as indices of ArchiveLines: with the header alone, with
\* records after it, one of them malformed, without a header and without a
\* line
Bodies == { <<1>>, <<1, 2, 3>>, <<1, 2, 5, 3>>, <<1, 4, 2, 3>>, <<2, 3>>, <<>> }

\* start_time and end_time: an hour, a night, an hour that starts a second
\* late, an end before its start on the same day and on the day before, and
\* a half day up to the midnight that starts the next month; the end of
\* February in a leap year and in a common year; the turn of the year
Windows ==
    { << <<2015, 8, 12, 12, 0, 0>>, <<2015, 8, 12, 13, 0, 0>> >>,
      << <<2015, 8, 11, 23, 30, 0>>, <<2015, 8, 12, 12, 0, 0>> >>,
      << <<2015, 8, 12, 12, 0, 1>>, <<2015, 8, 12, 13, 0, 0>> >>,
      << <<2015, 8, 12, 13, 0, 0>>, <<2015, 8, 12, 12, 0, 0>> >>,
      << <<2015, 8, 13, 0, 0, 0>>, <<2015, 8, 12, 12, 0, 0>> >>,
      << <<2015, 8, 31, 12, 0, 0>>, <<2015, 9, 1, 0, 0, 0>> >>,
      << <<2016, 2, 28, 12, 0, 0>>, <<2016, 3, 1, 0, 0, 0>> >>,
      << <<2015, 2, 28, 0, 0, 0>>, <<2015, 3, 1, 18, 30, 0>> >>,
      << <<2015, 12, 31, 23, 0, 0>>, <<2016, 1, 1, 1, 0, 0>> >> }

\* the generators before the first __next__
NotStarted ==
    [pc |-> "start", account |-> 0, region |-> 0, day |-> 0, page |-> 0,
     item |-> 0, line |-> 0]

\* a bucket whose accounts and regions vary under the allow-lists
InitPrefixes ==
    /\ \E a \in {<<1, 2>>, <<2>>}, r \in {<<1, 2>>, <<2, 1>>, <<2>>} :
         bucket = [accounts |-> [i \in 1..Len(a) |-> AccountIds[a[i]]],
                   regions |-> [i \in 1..Len(r) |-> RegionNames[r[i]]],
                   listing |-> << <<1, 2, 3>> >>,
                   body |-> <<1, 2, 3>>]
    /\ \E ia \in {None, PySet({AccountIds[1]}), PySet({}),
                  PySet({AccountIds[1], AccountIds[2]})},
          ir \in {None, PySet({RegionNames[1]}), PySet({RegionNames[2]})} :
         reader = [start_time |-> <<2015, 8, 12, 12, 0, 0>>,
                   end_time |-> <<2015, 8, 12, 13, 0, 0>>,
                   include_accounts |-> ia, include_regions |-> ir,
                   pep479 |-> TRUE]

\* a bucket of one account and one region whose files vary under the times
InitFiles ==
    /\ \E l \in Listings, b \in Bodies :
         bucket = [accounts |-> <<AccountIds[1]>>, regions |-> <<RegionNames[1]>>,
                   listing |-> l, body |-> b]
    /\ \E w \in Windows, v \in BOOLEAN :
         reader = [start_time |-> w[1], end_time |-> w[2],
                   include_accounts |-> None, include_regions |-> None,
                   pep479 |-> v \/ bucket.body # <<>>]

InitS3 ==
    /\ IdleCodec
    /\ IdleSet
    /\ IdleLogs
    /\ IdleAgg
    /\ InitPrefixes \/ InitFiles
    /\ frame = NotStarted
    /\ resumed = FALSE
    /\ calls = <<>>
    /\ records = <<>>
    /\ returned = NoOutcome
    /\ handles = 0

\* _get_account_prefixes: prefix = self.prefix.strip('/') + '/AWSLogs/' with
\* its leading '/' stripped, for a location that is a bucket name alone
AccountsPrefix == <<"A", "W", "S", "L", "o", "g", "s", "/">>

\* the 'CommonPrefixes' of list_objects_v2(Delimiter='/', Prefix=prefix)
AccountsResponse ==
    [i \in 1..Len(bucket.accounts) |-> AccountsPrefix \o bucket.accounts[i] \o <<"/">>]

RegionsResponse(account_prefix) ==
    [i \in 1..Len(bucket.regions) |->
        account_prefix \o <<"v", "p", "c", "f", "l", "o", "w", "l", "o", "g",
              "s", "/">> \o bucket.regions[i] \o <<"/">>]

\* the pages of paginate(Prefix=prefix): the keys begin with the prefix
KeyPages(prefix) ==
    [p \in 1..Len(bucket.listing) |->
        [i \in 1..Len(bucket.listing[p]) |-> prefix \o FileNames[bucket.listing[p][i]]]]

\* an account listing that passes every prefix on
AccountIncluded_any(prefix) == TRUE

\* _get_account_prefixes: no allow-list, or the account id between the last
\* two '/' of the prefix is in it
AccountIncluded(prefix) ==
    \/ reader.include_accounts = None
    \/ rsplit(prefix, "/", 2)[2] \in reader.include_accounts.s

\* _get_region_prefixes: likewise for the region name
RegionIncluded(prefix) ==
    \/ reader.include_regions = None
    \/ rsplit(prefix, "/", 2)[2] \in reader.include_regions.s

\* day fragments that leave out the day of end_time
DatePrefixes_half_open ==
    LET days == rrule(Midnight(reader.start_time), Midnight(reader.end_time))
    IN  [i \in 1..(Len(days) - 1) |-> strftime(days[i])]

\* _get_date_prefixes
DatePrefixes ==
    LET days == rrule(Midnight(reader.start_time), Midnight(reader.end_time))
    IN  [i \in 1..Len(days) |-> strftime(days[i])]

\* _get_keys: file_name.rsplit('_', 2)[1] parsed as a timestamp, IndexError
\* when the name has no '_'
KeyTime(key) ==
    LET parts == rsplit(basename(key), "_", 2)
    IN  IF Len(parts) < 2 THEN [exc |-> "IndexError", dt |-> <<>>]
        ELSE strptime(parts[2])

\* an except clause that names ValueError alone
Caught_value_error(exc) == exc = "ValueError"

\* _get_keys: except (IndexError, ValueError): continue
Caught(exc) == exc \in {"IndexError", "ValueError"}

\* _get_keys: the key is yielded when its timestamp is read without error and
\* start_time <= dt < end_time
KeyYielded(key) ==
    LET t == KeyTime(key)
    IN  /\ t.exc = "none"
        /\ ~Before(t.dt, reader.start_time)
        /\ Before(t.dt, reader.end_time)

\* where the generators stand
account_prefix == AccountsResponse[frame.account]
region_prefix == RegionsResponse(account_prefix)[frame.region]
day_prefix == DatePrefixes[frame.day]
prefix == region_prefix \o day_prefix
page == KeyPages(prefix)[frame.page]
key == page[frame.item]

Call(op, arg, n) == [op |-> op, arg |-> arg, n |-> n]

\* S3FlowLogsReader.__next__(): next(self.iterator) resumes the generators
\* where they stand; a generator that has finished ("done") or that an
\* exception has left ("closed") raises StopIteration
S3Next ==
    /\ ~resumed
    /\ IF frame.pc \in {"done", "closed"}
       THEN returned' = StopIteration /\ resumed' = FALSE
       ELSE returned' = returned /\ resumed' = TRUE
    /\ UNCHANGED <<codec_vars, set_vars, logs_vars, agg_vars, bucket, reader, frame,
                   calls, records, handles>>

\* _get_account_prefixes, up to its loop: the one listing of the accounts
ListAccounts ==
    /\ resumed /\ frame.pc = "start"
    /\ calls' = Append(calls, Call("list_accounts", AccountsPrefix, 0))
    /\ frame' = [frame EXCEPT !.pc = "account"]
    /\ UNCHANGED <<codec_vars, set_vars, logs_vars, agg_vars, bucket, reader, resumed,
                   records, returned, handles>>

\* _get_account_prefixes, one turn of its loop: the next prefix is skipped or
\* yielded to _read_streams; after the last, every generator has finished
NextAccount ==
    /\ resumed /\ frame.pc = "account"
    /\ IF frame.account = Len(AccountsResponse)
       THEN /\ frame' = [frame EXCEPT !.pc = "done"]
            /\ returned' = StopIteration
            /\ resumed' = FALSE
       ELSE /\ frame' = [frame EXCEPT
                    !.account = @ + 1,
                    !.pc = IF AccountIncluded(AccountsResponse[frame.account + 1])
                           THEN "regions" ELSE "account"]
            /\ UNCHANGED <<returned, resumed>>
    /\ UNCHANGED <<codec_vars, set_vars, logs_vars, agg_vars, bucket, reader, calls,
                   records, handles>>

\* _get_region_prefixes, up to its loop: the one listing of the regions of
\* the account
ListRegions ==
    /\ resumed /\ frame.pc = "regions"
    /\ calls' = Append(calls, Call("list_regions", account_prefix \o <<"v", "p",
          "c", "f", "l", "o", "w", "l", "o", "g", "s", "/">>, 0))
    /\ frame' = [frame EXCEPT !.pc = "region", !.region = 0]
    /\ UNCHANGED <<codec_vars, set_vars, logs_vars, agg_vars, bucket, reader, resumed,
                   records, returned, handles>>

\* _get_region_prefixes, one turn of its loop; after the last, the loop over
\* the accounts goes on
NextRegion ==
    /\ resumed /\ frame.pc = "region"
    /\ IF frame.region = Len(RegionsResponse(account_prefix))
       THEN frame' = [frame EXCEPT !.pc = "account"]
       ELSE frame' = [frame EXCEPT
                !.region = @ + 1,
                !.day = 0,
                !.pc = IF RegionIncluded(RegionsResponse(account_prefix)[frame.region + 1])
                       THEN "day" ELSE "region"]
    /\ UNCHANGED <<codec_vars, set_vars, logs_vars, agg_vars, bucket, reader, resumed,
                   calls, records, returned, handles>>

\* _get_date_prefixes, one turn of its loop; after the last day, the loop
\* over the regions goes on
NextDay ==
    /\ resumed /\ frame.pc = "day"
    /\ IF frame.day = Len(DatePrefixes)
       THEN frame' = [frame EXCEPT !.pc = "region"]
       ELSE frame' = [frame EXCEPT !.day = @ + 1, !.page = 0, !.pc = "page"]
    /\ UNCHANGED <<codec_vars, set_vars, logs_vars, agg_vars, bucket, reader, resumed,
                   calls, records, returned, handles>>

\* _get_keys, one turn of its loop over the pages: the paginator requests
\* the next page of the listing; after the last page, the loop over the days
\* goes on
NextPage ==
    /\ resumed /\ frame.pc = "page"
    /\ IF frame.page = Len(KeyPages(prefix))
       THEN frame' = [frame EXCEPT !.pc = "day"] /\ calls' = calls
       ELSE /\ frame' = [frame EXCEPT !.page = @ + 1, !.item = 0, !.pc = "item"]
            /\ calls' = Append(calls, Call("list_keys", prefix, frame.page + 1))
    /\ UNCHANGED <<codec_vars, set_vars, logs_vars, agg_vars, bucket, reader, resumed,
                   records, returned, handles>>

\* _get_keys, one turn of its loop over the 'Contents' of the page: the next
\* key is skipped or yielded to _read_streams; an exception the except clause
\* does not name leaves through __next__ and closes the generators
NextKey ==
    /\ resumed /\ frame.pc = "item"
    /\ IF frame.item = Len(page)
       THEN /\ frame' = [frame EXCEPT !.pc = "page"]
            /\ UNCHANGED <<resumed, returned>>
       ELSE LET t == KeyTime(page[frame.item + 1])
            IN  IF t.exc = "none" \/ Caught(t.exc)
                THEN /\ frame' = [frame EXCEPT
                            !.item = @ + 1,
                            !.pc = IF KeyYielded(page[frame.item + 1])
                                   THEN "fetch" ELSE "item"]
                     /\ UNCHANGED <<resumed, returned>>
                ELSE /\ frame' = [frame EXCEPT !.item = @ + 1, !.pc = "closed"]
                     /\ returned' = Raised([type |-> t.exc, message |-> <<>>])
                     /\ resumed' = FALSE
    /\ UNCHANGED <<codec_vars, set_vars, logs_vars, agg_vars, bucket, reader, calls,
                   records, handles>>

\* a reading that starts at the first line
Skipped_none(lines) == 0

\* _read_file: next(gz_f) takes the header off the lines before the loop
Skipped(lines) == 1

\* _read_file, up to its loop: the object is fetched, its body opened and
\* the header skipped.  In a body without a line next(gz_f) raises
\* StopIteration inside the generator and the body is closed on the way out:
\* an interpreter before Python 3.7 takes that for the end of the file's
\* lines, a later one turns it into a RuntimeError that leaves through
\* __next__
GetObject ==
    /\ resumed /\ frame.pc = "fetch"
    /\ calls' = Append(calls, Call("get_object", key, 0))
    /\ IF bucket.body = <<>>
       THEN /\ handles' = handles
            /\ IF reader.pep479
               THEN /\ frame' = [frame EXCEPT !.line = 0, !.pc = "closed"]
                    /\ returned' = Raised([type |-> "RuntimeError", message |-> <<>>])
                    /\ resumed' = FALSE
               ELSE /\ frame' = [frame EXCEPT !.line = 0, !.pc = "item"]
                    /\ UNCHANGED <<resumed, returned>>
       ELSE /\ handles' = handles + 1
            /\ frame' = [frame EXCEPT !.line = Skipped(bucket.body), !.pc = "line"]
            /\ UNCHANGED <<resumed, returned>>
    /\ UNCHANGED <<codec_vars, set_vars, logs_vars, agg_vars, bucket, reader, records>>

\* a body that stays open when its lines have run out
exit_leak(h) == h

\* _read_file: leaving the two with blocks closes the GzipFile and the
\* BytesIO of the body; h is the number of open bodies
exit(h) == h - 1

\* _read_file, one turn of its loop: the next line is yielded, through
\* _read_streams, to _reader, which has __next__ return FlowRecord(event) or
\* raise what FlowRecord raises; whether the body left open by an exception
\* is closed by then is up to the garbage collector.  After the last line
\* the body is closed and the loop over the keys goes on
NextLine ==
    /\ resumed /\ frame.pc = "line"
    /\ IF frame.line = Len(bucket.body)
       THEN /\ handles' = exit(handles)
            /\ frame' = [frame EXCEPT !.pc = "item"]
            /\ UNCHANGED <<calls, records, returned, resumed>>
       ELSE LET r == ArchiveRecords[bucket.body[frame.line + 1]]
            IN  /\ calls' = Append(calls, Call("yield", key, frame.line + 1))
                /\ resumed' = FALSE
                /\ IF r.exc = "none"
                   THEN /\ records' = Append(records, r.rec)
                        /\ returned' = [kind |-> "record", exc |-> NoFault]
                        /\ frame' = [frame EXCEPT !.line = @ + 1]
                        /\ handles' = handles
                   ELSE /\ records' = records
                        /\ returned' = Raised([type |-> r.exc, message |-> <<>>])
                        /\ frame' = [frame EXCEPT !.line = @ + 1, !.pc = "closed"]
                        /\ handles' \in {handles, 0}
    /\ UNCHANGED <<codec_vars, set_vars, logs_vars, agg_vars, bucket, reader>>

NextS3 ==
    \/ S3Next
    \/ ListAccounts
    \/ NextAccount
    \/ ListRegions
    \/ NextRegion
    \/ NextDay
    \/ NextPage
    \/ NextKey
    \/ GetObject
    \/ NextLine

SpecS3 == InitS3 /\ [][NextS3]_vars

----------------------------------------------------------------------------
(* aggregated_records: the records of a sequence grouped by key fields and  *)
(* folded into one summary per group.  The function is imported by the      *)
(* tests but is not part of flowlogs_reader.py; it is modelled from section *)
(* 4.2 of the specification.                                                *)

MaxRecords == 3

\* key_fields: the default, the 5-tuple of a flow, the one of the tests, and
\* one of a field that no record lacks
KeyFields ==
    { <<"srcaddr", "dstaddr", "srcport", "dstport", "protocol">>,
      <<"interface_id", "srcaddr", "srcport", "dstport">>,
      <<"interface_id">> }

\* the lines of the records to aggregate: the first three SAMPLE_RECORDS, the
\* third also with its action replaced, the first seen again earlier and
\* later with other counts, the fourth of the SAMPLE_RECORDS, which has no
\* data, and the same on the interface of the first
AggLines ==
    <<<<"2", " ", "1", "2", "3", "4", "5", "6", "7", "8", "9", "0", "1", "0",
      " ", "e", "n", "i", "-", "1", "0", "2", "0", "1", "0", "a", "b", " ", "1",
      "9", "8", ".", "5", "1", ".", "1", "0", "0", ".", "1", " ", "1", "9", "2",
      ".", "0", ".", "2", ".", "1", " ", "4", "4", "3", " ", "4", "9", "1", "5",
      "2", " ", "6", " ", "1", "0", " ", "8", "4", "0", " ", "1", "4", "3", "9",
      "3", "8", "7", "2", "6", "3", " ", "1", "4", "3", "9", "3", "8", "7", "2",
      "6", "4", " ", "A", "C", "C", "E", "P", "T", " ", "O", "K">>,
      <<"2", " ", "1", "2", "3", "4", "5", "6", "7", "8", "9", "0", "1", "0",
        " ", "e", "n", "i", "-", "1", "0", "2", "0", "1", "0", "a", "b", " ",
        "1", "9", "2", ".", "0", ".", "2", ".", "1", " ", "1", "9", "8", ".",
        "5", "1", ".", "1", "0", "0", ".", "1", " ", "4", "9", "1", "5", "2",
        " ", "4", "4", "3", " ", "6", " ", "2", "0", " ", "1", "6", "8", "0",
        " ", "1", "4", "3", "9", "3", "8", "7", "2", "6", "4", " ", "1", "4",
        "3", "9", "3", "8", "7", "2", "6", "5", " ", "A", "C", "C", "E", "P",
        "T", " ", "O", "K">>,
      <<"2", " ", "1", "2", "3", "4", "5", "6", "7", "8", "9", "0", "1", "0",
        " ", "e", "n", "i", "-", "1", "0", "2", "0", "1", "0", "c", "d", " ",
        "1", "9", "2", ".", "0", ".", "2", ".", "1", " ", "1", "9", "8", ".",
        "5", "1", ".", "1", "0", "0", ".", "1", " ", "4", "9", "1", "5", "2",
        " ", "4", "4", "3", " ", "6", " ", "2", "0", " ", "1", "6", "8", "0",
        " ", "1", "4", "3", "9", "3", "8", "7", "2", "6", "3", " ", "1", "4",
        "3", "9", "3", "8", "7", "2", "6", "6", " ", "A", "C", "C", "E", "P",
        "T", " ", "O", "K">>,
      <<"2", " ", "1", "2", "3", "4", "5", "6", "7", "8", "9", "0", "1", "0",
        " ", "e", "n", "i", "-", "1", "0", "2", "0", "1", "0", "c", "d", " ",
        "1", "9", "2", ".", "0", ".", "2", ".", "1", " ", "1", "9", "8", ".",
        "5", "1", ".", "1", "0", "0", ".", "1", " ", "4", "9", "1", "5", "2",
        " ", "4", "4", "3", " ", "6", " ", "2", "0", " ", "1", "6", "8", "0",
        " ", "1", "4", "3", "9", "3", "8", "7", "2", "6", "3", " ", "1", "4",
        "3", "9", "3", "8", "7", "2", "6", "6", " ", "R", "E", "J", "E", "C",
        "T", " ", "O", "K">>,
      <<"2", " ", "1", "2", "3", "4", "5", "6", "7", "8", "9", "0", "1", "0",
        " ", "e", "n", "i", "-", "1", "0", "2", "0", "1", "0", "a", "b", " ",
        "1", "9", "8", ".", "5", "1", ".", "1", "0", "0", ".", "1", " ", "1",
        "9", "2", ".", "0", ".", "2", ".", "1", " ", "4", "4", "3", " ", "4",
        "9", "1", "5", "2", " ", "6", " ", "9", "9", "5", " ", "9", "9", "9",
        "5", "0", "0", " ", "1", "4", "3", "9", "3", "8", "7", "2", "0", "0",
        " ", "1", "4", "3", "9", "3", "8", "7", "3", "0", "0", " ", "A", "C",
        "C", "E", "P", "T", " ", "O", "K">>,
      <<"2", " ", "1", "2", "3", "4", "5", "6", "7", "8", "9", "0", "1", "0",
        " ", "e", "n", "i", "-", "1", "a", "2", "b", "3", "c", "4", "d", " ",
        "-", " ", "-", " ", "-", " ", "-", " ", "-", " ", "-", " ", "-", " ",
        "1", "4", "3", "1", "2", "8", "0", "8", "7", "6", " ", "1", "4", "3",
        "1", "2", "8", "0", "9", "3", "4", " ", "-", " ", "N", "O", "D", "A",
        "T", "A">>,
      <<"2", " ", "1", "2", "3", "4", "5", "6", "7", "8", "9", "0", "1", "0",
        " ", "e", "n", "i", "-", "1", "0", "2", "0", "1", "0", "a", "b", " ",
        "-", " ", "-", " ", "-", " ", "-", " ", "-", " ", "-", " ", "-", " ",
        "1", "4", "3", "1", "2", "8", "0", "8", "7", "6", " ", "1", "4", "3",
        "1", "2", "8", "0", "9", "3", "4", " ", "-", " ", "N", "O", "D", "A",
        "T", "A">>>>

\* FlowRecord.from_message of each of the AggLines
AggRecords == [k \in 1..Len(AggLines) |-> from_message(AggLines[k]).rec]

InitAgg ==
    /\ IdleCodec
    /\ IdleSet
    /\ IdleLogs
    /\ IdleS3
    /\ key_fields \in KeyFields
    /\ consumed = <<>>
    /\ flow_table = <<>>

\* a + b for counts, which are not negative; a count that is None adds
\* nothing to the other
Plus(a, b) ==
    IF b = None THEN a
    ELSE IF a = None THEN b
    ELSE PyInt(FALSE, a.hi + b.hi + (a.lo + b.lo) \div 1000, (a.lo + b.lo) % 1000)

\* a < b for datetimes
Earlier(a, b) == a.sec < b.sec \/ (a.sec = b.sec /\ a.usec < b.usec)

\* a start that stays that of the first record of the group
min_first(a, b) == a

\* min(a, b) and max(a, b) of datetimes
min(a, b) == IF Earlier(b, a) THEN b ELSE a

max(a, b) == IF Earlier(a, b) THEN b ELSE a

\* the tuple of the requested field values of a record, in the given order
KeyOf(r) == [i \in 1..Len(key_fields) |-> r[key_fields[i]]]

\* the summary of a group seeded by its first record, whose other fields it
\* carries
Seed(r) ==
    [start |-> r.start, end |-> r.end, packets |-> r.packets, bytes |-> r.bytes,
     first |-> r]

\* the summary of a group folded with a further record
Fold(summary, r) ==
    [summary EXCEPT !.start = min(@, r.start),
                    !.end = max(@, r.end),
                    !.packets = Plus(@, r.packets),
                    !.bytes = Plus(@, r.bytes)]

\* a record that lacks one of the key fields is in no group
Keyless(r) == \E i \in 1..Len(key_fields) : r[key_fields[i]] = None

\* aggregated_records takes the next record of its input: AggRecords[k]
Aggregate(k) ==
    /\ Len(consumed) < MaxRecords
    /\ consumed' = Append(consumed, k)
    /\ LET r == AggRecords[k]
       IN  flow_table' =
             IF Keyless(r) THEN flow_table
             ELSE IF KeyOf(r) \in DOMAIN flow_table
             THEN [flow_table EXCEPT ![KeyOf(r)] = Fold(@, r)]
             ELSE flow_table @@ (KeyOf(r) :> Seed(r))
    /\ UNCHANGED <<codec_vars, set_vars, logs_vars, s3_vars, key_fields>>

NextAgg == \E k \in 1..Len(AggLines) : Aggregate(k)

SpecAgg == InitAgg /\ [][NextAgg]_vars

----------------------------------------------------------------------------
(* Properties of the codec *)

\* the whitespace-delimited tokens of the input line
toks == split(message)

\* token i of t is there and is not a decimal integer literal: an optional
\* sign followed by one or more digits
Unparseable(t, i) ==
    /\ i <= Len(t)
    /\ LET body == IF t[i][1] \in {"+", "-"} THEN Tail(t[i]) ELSE t[i]
       IN  body = <<>> \/ \E k \in 1..Len(body) :
                              body[k] \notin {"0", "1", "2", "3", "4", "5", "6", "7", "8", "9"}

\* C1: for every valid 14-token line, parsing the serialised record succeeds
\* and gives a record equal to the record parsed from the line.
C1_RoundTrip ==
    (stage = "reparsed" /\ Len(toks) = 14)
        => (reparsed.exc = "none" /\ reparsed.rec = record.rec)

\* C2: a start or end token above 2147483647 is taken as milliseconds (the
\* instant token/1000 seconds), one at or below it as whole seconds; each of
\* the two tokens is decided on its own.
C2_TimestampDisambiguation ==
    record.exc = "none" =>
        \A p \in {<<11, "start">>, <<12, "end">>} :
            LET v == int(split(message)[p[1]]).val
                millis == ~v.neg /\ (v.hi > 2147483 \/ (v.hi = 2147483 /\ v.lo > 647))
            IN  IF millis
                THEN record.rec[p[2]] = DateTime(v.hi, 1000 * v.lo)
                ELSE record.rec[p[2]] = DateTime(IntValue(v), 0)

\* a parsed line whose start token is 2147483648 (milliseconds) and whose end
\* token is 2147483647 (seconds)
C2_Witness ==
    /\ record.exc = "none"
    /\ LET t == toks
       IN  /\ t[11] = <<"2", "1", "4", "7", "4", "8", "3", "6", "4", "8">>
           /\ t[12] = <<"2", "1", "4", "7", "4", "8", "3", "6", "4", "7">>
    /\ record.rec.start = DateTime(2147483, 648000)
    /\ record.rec.end = DateTime(2147483647, 0)

IntPositions == {1, 6, 7, 8, 9, 10, 11, 12}

\* C3 as stated: construction fails for every line that does not split into
\* exactly 14 tokens and for every line with an unparseable token at one of
\* the integer positions.
C3_RejectsMalformed ==
    stage # "input" =>
        LET t == toks
        IN  (Len(t) # 14 \/ \E i \in IntPositions : Unparseable(t, i))
                => record.exc # "none"

\* C3 amended: construction fails for every line of fewer than 14 tokens, for
\* every line whose version, start or end token is unparseable, and for every
\* line whose log_status is not a sentinel and whose srcport, dstport,
\* protocol, packets or bytes token is unparseable.
C3_RejectsMalformedAmended ==
    stage # "input" =>
        LET t == toks
        IN  (\/ Len(t) < 14
             \/ \E i \in {1, 11, 12} : Unparseable(t, i)
             \/ /\ Len(t) >= 14
                /\ t[14] # <<"N", "O", "D", "A", "T", "A">>
                /\ t[14] # <<"S", "K", "I", "P", "D", "A", "T", "A">>
                /\ \E i \in 6..10 : Unparseable(t, i))
                => record.exc # "none"

\* a 14-token line with log_status OK and the placeholder as srcport, rejected
C3_Witness ==
    /\ stage = "parsed"
    /\ record.exc = "ValueError"
    /\ LET t == toks
       IN  /\ Len(t) = 14
           /\ t[14] = <<"O", "K">>
           /\ t[6] = <<"-">>
           /\ \A i \in IntPositions \ {6} : ~Unparseable(t, i)

TrafficDetails ==
    {"srcaddr", "dstaddr", "srcport", "dstport", "protocol", "packets", "bytes", "action"}

\* C4: a parsed record whose log_status token is NODATA or SKIPDATA has null
\* traffic details whatever the tokens are; with any other log_status the
\* traffic details hold the parsed tokens.
C4_SentinelNullsDetails ==
    record.exc = "none" =>
        LET t == toks
        IN  IF t[14] = <<"N", "O", "D", "A", "T", "A">>
               \/ t[14] = <<"S", "K", "I", "P", "D", "A", "T", "A">>
            THEN \A a \in TrafficDetails : record.rec[a] = None
            ELSE /\ record.rec.srcaddr = Str(t[4])
                 /\ record.rec.dstaddr = Str(t[5])
                 /\ record.rec.srcport = int(t[6]).val
                 /\ record.rec.dstport = int(t[7]).val
                 /\ record.rec.protocol = int(t[8]).val
                 /\ record.rec.packets = int(t[9]).val
                 /\ record.rec.bytes = int(t[10]).val
                 /\ record.rec.action = Str(t[13])

\* a SKIPDATA line that carries real traffic tokens, parsed
C4_Witness ==
    /\ record.exc = "none"
    /\ LET t == toks
       IN  /\ t[14] = <<"S", "K", "I", "P", "D", "A", "T", "A">>
           /\ t[4] # <<"-">> /\ t[6] = <<"4", "4", "3">> /\ t[13] # <<"-">>
    /\ \A a \in TrafficDetails : record.rec[a] = None

\* C5: to_message gives 14 tokens separated by single spaces, in slot order:
\* the placeholder for a null field, the string form of any other field (the
\* integer 0 included), and whole seconds since the epoch for start and end.
C5_Placeholders ==
    stage \in {"serialized", "reparsed"} =>
        text = join(<<" ">>,
                    [i \in 1..14 |->
                        LET x == record.rec[slots[i]]
                        IN  IF x = None THEN <<"-">>
                            ELSE IF x.t = "datetime" THEN str(PyIntOf(x.sec))
                            ELSE str(x)])

----------------------------------------------------------------------------
(* Properties of equality, hashing and the record set *)

\* the 14 field values of a record
FieldTuple(r) ==
    <<r.version, r.account_id, r.interface_id, r.srcaddr, r.dstaddr, r.srcport,
      r.dstport, r.protocol, r.packets, r.bytes, r.start, r.end, r.action,
      r.log_status>>

\* C6: two records compare equal exactly when their 14 field values are
\* pairwise equal; records that compare equal have the same hash; comparing
\* with an object that is no record gives unequal; and the set holds as many
\* elements as there are distinct field tuples among the records added.
C6_EqHashSet ==
    /\ Len(record_set) =
          Cardinality({FieldTuple(SetRecords[inserted[i]]) : i \in 1..Len(inserted)})
    /\ compared # NoComparison =>
          IF compared.right = Ellipsis
          THEN compared.result = FALSE
          ELSE /\ compared.result = (FieldTuple(compared.left) = FieldTuple(compared.right))
               /\ compared.result => hash(compared.left) = hash(compared.right)

\* four lines added that give two distinct records, then an element compared
\* with an equal record parsed from another line
C6_Witness ==
    /\ Len(inserted) = 4
    /\ Len(record_set) = 2
    /\ \A i \in 1..4, j \in 1..4 : i # j => inserted[i] # inserted[j]
    /\ compared # NoComparison
    /\ compared.result = TRUE
    /\ compared.right = SetRecords[3]
    /\ inserted[1] = 1
    /\ compared.left = record_set[1]

----------------------------------------------------------------------------
(* Properties of FlowLogsReader *)

RECURSIVE Concat(_, _)
Concat(pp, n) == IF n = 0 THEN <<>> ELSE Concat(pp, n - 1) \o pp[n]

\* the records of all events of all pages, in page order and in-page order
AllRecords ==
    LET all == Concat(pages, Len(pages))
    IN  [k \in 1..Len(all) |-> LogRecords[all[k]].rec]

\* the fault is a pagination fault whose message begins with the signature
DuplicateTokenFault ==
    /\ fault.type = "PaginationError"
    /\ Len(fault.message) >= Len(DUPLICATE_NEXT_TOKEN_MESSAGE)
    /\ \A k \in 1..Len(DUPLICATE_NEXT_TOKEN_MESSAGE) :
          fault.message[k] = DUPLICATE_NEXT_TOKEN_MESSAGE[k]

\* C7: when the paginator, after its pages, raises a pagination fault whose
\* message starts with the duplicate-token signature, the iteration ends as
\* normal exhaustion and the caller has received the events of those pages,
\* each once, in page order and in-page order.
C7_DuplicateTokenSwallowed ==
    (raised /\ DuplicateTokenFault) =>
        /\ outcome = StopIteration
        /\ thrown = NoFault
        /\ received = AllRecords

\* two pages delivered, then the signature with trailing text: exhaustion
C7_Witness ==
    /\ raised
    /\ fault.message = DUPLICATE_NEXT_TOKEN_MESSAGE \o <<":", " ", "t", "o", "k", "e", "n">>
    /\ fault.type = "PaginationError"
    /\ Len(pages) = 2
    /\ Len(received) >= 3
    /\ outcome = StopIteration

\* C8: any other fault of the paginator reaches the caller as raised, after
\* the events of the pages received before it; it is never turned into
\* normal exhaustion.
C8_OtherFaultsPropagate ==
    (raised /\ ~DuplicateTokenFault) =>
        /\ thrown = fault
        /\ received = AllRecords
        /\ outcome = Raised(fault) \/ (outcome = StopIteration /\ iterator = "closed")

\* a pagination fault that only contains the signature, raised to the caller
\* after the events of the pages
C8_Witness ==
    /\ raised
    /\ fault.type = "PaginationError"
    /\ fault.message = <<"E", "r", "r", "o", "r", ":", " ">> \o DUPLICATE_NEXT_TOKEN_MESSAGE
    /\ Len(received) >= 2
    /\ outcome = Raised(fault)
    /\ thrown = fault

----------------------------------------------------------------------------
(* Properties of the S3 archive reader *)

\* the parts of a path between its '/'
Path(p) == rsplit(p, "/", Len(p))

\* every generator ran to its end
Completed == frame.pc = "done"

Issued(op, arg) == \E i \in 1..Len(calls) : calls[i].op = op /\ calls[i].arg = arg

\* C9: no region listing, day listing or fetch is issued under an account
\* whose id is not in the account allow-list, and no day listing or fetch
\* under a region whose name is not in the region allow-list; a walk that
\* runs to its end has listed the regions of every listed account that no
\* allow-list excludes, and every day of every listed region of those
\* accounts that no allow-list excludes
C9_AllowListsPrune ==
    /\ \A i \in 1..Len(calls) :
         LET c == calls[i]
             p == Path(c.arg)
         IN  /\ (c.op \in {"list_regions", "list_keys", "get_object"}
                 /\ reader.include_accounts # None)
                    => p[2] \in reader.include_accounts.s
             /\ (c.op \in {"list_keys", "get_object"}
                 /\ reader.include_regions # None)
                    => p[4] \in reader.include_regions.s
    /\ Completed =>
         \A a \in 1..Len(bucket.accounts) :
            (reader.include_accounts # None
                => bucket.accounts[a] \in reader.include_accounts.s)
            => LET regions == AccountsPrefix \o bucket.accounts[a] \o <<"/", "v", "p", "c", "f", "l", "o", "w", "l", "o", "g", "s", "/">>
               IN  /\ Issued("list_regions", regions)
                   /\ \A r \in 1..Len(bucket.regions), d \in 1..Len(DatePrefixes) :
                        (reader.include_regions # None
                            => bucket.regions[r] \in reader.include_regions.s)
                        => Issued("list_keys",
                                  regions \o bucket.regions[r] \o <<"/">> \o DatePrefixes[d])

\* a completed walk over two accounts and two regions, one of each allowed,
\* that fetched a file
C9_Witness ==
    /\ Completed
    /\ Len(bucket.accounts) = 2 /\ Len(bucket.regions) = 2
    /\ reader.include_accounts = PySet({AccountIds[1]})
    /\ reader.include_regions = PySet({RegionNames[1]})
    /\ \E i \in 1..Len(calls) : calls[i].op = "get_object"
    /\ Len(records) = 2

\* the keys a listing call delivered
Delivered(c) == KeyPages(c.arg)[c.n]

\* the '_'-delimited segments of the file name of a key
Segments(k) == rsplit(basename(k), "_", Len(k))

\* the file name has three segments or more and the second-to-last is a
\* timestamp t with start_time <= t < end_time
Selected(k) ==
    LET segs == Segments(k)
    IN  /\ Len(segs) >= 3
        /\ LET t == strptime(segs[Len(segs) - 1])
           IN  /\ t.exc = "none"
               /\ ~Before(t.dt, reader.start_time)
               /\ Before(t.dt, reader.end_time)

\* C10: a listed key is fetched if and only if the second-to-last
\* '_'-delimited segment of its file name is a timestamp t with
\* start_time <= t < end_time; a file name of fewer than three segments is
\* never fetched
C10_FileSelection ==
    /\ \A i \in 1..Len(calls) : calls[i].op = "get_object" => Selected(calls[i].arg)
    /\ Completed =>
         \A i \in 1..Len(calls) :
            calls[i].op = "list_keys" =>
                \A j \in 1..Len(Delivered(calls[i])) :
                    Selected(Delivered(calls[i])[j])
                        => Issued("get_object", Delivered(calls[i])[j])

\* no '_'-delimited segment of the file name is a timestamp, or there is no
\* '_' in it
Foreign(k) ==
    LET segs == Segments(k)
    IN  Len(segs) = 1 \/ \A i \in 1..Len(segs) : strptime(segs[i]).exc # "none"

\* the listed keys that follow the j-th key of the n-th page of a listing,
\* in the same page and in the later pages
Following(arg, n, j) ==
    { KeyPages(arg)[m][i] : <<m, i>> \in
        { q \in UNION { {<<m, i>> : i \in 1..Len(KeyPages(arg)[m])} :
                          m \in 1..Len(KeyPages(arg)) } :
            q[1] > n \/ (q[1] = n /\ q[2] > j) } }

\* C11: a listed key whose file name holds no timestamp segment is never
\* fetched; __next__ raises nothing but what FlowRecord raised for the line
\* yielded last, or what a fetched body without a line made it raise, so
\* nothing on account of a key; and in a walk that runs to
\* its end every page after the one holding such a key is requested and
\* every selected key listed after it is fetched
C11_ForeignKeysSkipped ==
    /\ returned.kind = "raise" =>
         /\ calls # <<>>
         /\ \/ /\ calls[Len(calls)].op = "yield"
               /\ ArchiveRecords[bucket.body[calls[Len(calls)].n]].exc
                    = returned.exc.type
            \/ /\ calls[Len(calls)].op = "get_object"
               /\ bucket.body = <<>>
               /\ returned.exc.type = "RuntimeError"
    /\ \A i \in 1..Len(calls) :
         calls[i].op = "list_keys" =>
            \A j \in 1..Len(Delivered(calls[i])) :
                Foreign(Delivered(calls[i])[j]) =>
                    /\ ~Issued("get_object", Delivered(calls[i])[j])
                    /\ Completed =>
                         /\ \A m \in (calls[i].n + 1)..Len(bucket.listing) :
                              \E h \in 1..Len(calls) :
                                 calls[h] = Call("list_keys", calls[i].arg, m)
                         /\ \A k \in Following(calls[i].arg, calls[i].n, j) :
                              Selected(k) => Issued("get_object", k)

\* a walk run to its end in which a key without '_' and a key with a
\* segment that is no timestamp were listed, and keys listed after them in
\* the same page and in the next page were fetched
C11_Witness ==
    /\ Completed
    /\ bucket.listing = << <<3, 12, 2>>, <<11, 7>> >>
    /\ \E i \in 1..Len(calls) :
         /\ calls[i].op = "list_keys" /\ calls[i].n = 1
         /\ Foreign(Delivered(calls[i])[1]) /\ Foreign(Delivered(calls[i])[2])
         /\ Len(Segments(Delivered(calls[i])[2])) = 1
         /\ Issued("get_object", Delivered(calls[i])[3])
         /\ Issued("get_object", KeyPages(calls[i].arg)[2][2])

\* the midnights of the calendar of the years the times are taken from
Calendar ==
    UNION { { <<ym[1], ym[2], d, 0, 0, 0>> : d \in 1..DaysInMonth(ym[1], ym[2]) } :
            ym \in (2015..2016) \X (1..12) }

\* the calendar days from the day of start_time to the day of end_time, both
\* included
DaysInRange ==
    { c \in Calendar : /\ ~Before(c, Midnight(reader.start_time))
                       /\ ~Before(Midnight(reader.end_time), c) }

\* the indices of the calls that open the listing of a day under a region
DayListings(rp) ==
    { i \in 1..Len(calls) : /\ calls[i].op = "list_keys"
                            /\ calls[i].n = 1
                            /\ startswith(calls[i].arg, rp) }

\* the region prefixes the bucket holds, and those that no allow-list excludes
RegionPrefixes(kept) ==
    { AccountsPrefix \o bucket.accounts[a] \o <<"/", "v", "p", "c", "f", "l", "o", "w", "l", "o", "g", "s", "/">>
        \o bucket.regions[r] \o <<"/">> :
      <<a, r>> \in { q \in (1..Len(bucket.accounts)) \X (1..Len(bucket.regions)) :
          kept =>
            /\ reader.include_accounts # None
                  => bucket.accounts[q[1]] \in reader.include_accounts.s
            /\ reader.include_regions # None
                  => bucket.regions[q[2]] \in reader.include_regions.s } }

\* C12: under a region prefix a day listing is opened only for a calendar
\* day between the day of start_time and the day of end_time, both included,
\* at most once for each and in ascending order of the days (so none when
\* the day of start_time is after the day of end_time); a walk that runs to
\* its end has listed every such day under every kept region prefix
C12_ClosedDailyRange ==
    /\ \A rp \in RegionPrefixes(FALSE) :
         /\ \A i \in DayListings(rp) :
              \E c \in DaysInRange : calls[i].arg = rp \o strftime(c)
         /\ \A i, j \in DayListings(rp) :
              i < j => \E c, e \in DaysInRange :
                          /\ calls[i].arg = rp \o strftime(c)
                          /\ calls[j].arg = rp \o strftime(e)
                          /\ Before(c, e)
    /\ Completed =>
         \A rp \in RegionPrefixes(TRUE), c \in DaysInRange :
            \E i \in DayListings(rp) : calls[i].arg = rp \o strftime(c)

\* a walk run to its end that listed the 28th and the 29th of February and
\* the 1st of March, on whose midnight end_time falls
C12_Witness ==
    /\ Completed
    /\ reader.end_time = <<2016, 3, 1, 0, 0, 0>>
    /\ \E rp \in RegionPrefixes(TRUE) :
         /\ Cardinality(DayListings(rp)) = 3
         /\ \E i \in DayListings(rp) :
              calls[i].arg = rp \o <<"2", "0", "1", "6", "/", "0", "2", "/", "2", "9", "/">>
         /\ \E i \in DayListings(rp) :
              calls[i].arg = rp \o <<"2", "0", "1", "6", "/", "0", "3", "/", "0", "1", "/">>

\* the indices of the calls that yield a line
Yields == { i \in 1..Len(calls) : calls[i].op = "yield" }

\* C13: no key is fetched twice; the first line of a file is never yielded;
\* the lines yielded of a file follow its fetch one by one from the second
\* line on, and each is returned as the record FlowRecord makes of that line;
\* a walk that runs to its end has fetched every key _get_keys yielded and
\* yielded every line but the first of every fetched file, so that a file of
\* a header alone yields nothing and the keys after it are fetched
C13_HeaderSkipped ==
    /\ \A i, j \in 1..Len(calls) :
         (calls[i].op = "get_object" /\ calls[j].op = "get_object" /\ i # j)
            => calls[i].arg # calls[j].arg
    /\ \A i \in Yields :
         /\ calls[i].n >= 2
         /\ i > 1
         /\ calls[i - 1] =
              IF calls[i].n = 2 THEN Call("get_object", calls[i].arg, 0)
              ELSE Call("yield", calls[i].arg, calls[i].n - 1)
         /\ LET k == Cardinality({h \in Yields : h <= i})
            IN  IF k <= Len(records)
                THEN records[k] = FlowRecord([message |-> ArchiveLines[bucket.body[calls[i].n]]]).rec
                ELSE /\ i = Len(calls)
                     /\ returned.kind \in {"raise", "StopIteration"}
                     /\ frame.pc = "closed"
    /\ Len(records) <= Cardinality(Yields)
    /\ Completed =>
         \A i \in 1..Len(calls) :
            /\ calls[i].op = "list_keys" =>
                 \A j \in 1..Len(Delivered(calls[i])) :
                    KeyYielded(Delivered(calls[i])[j])
                        => Issued("get_object", Delivered(calls[i])[j])
            /\ calls[i].op = "get_object" =>
                 \A n \in 2..Len(bucket.body) :
                    /\ i + n - 1 <= Len(calls)
                    /\ calls[i + n - 1] = Call("yield", calls[i].arg, n)

\* a walk run to its end that fetched two files of a header and two records
\* and returned the four records
C13_Witness ==
    /\ Completed
    /\ bucket.body = <<1, 2, 3>>
    /\ Cardinality({i \in 1..Len(calls) : calls[i].op = "get_object"}) = 2
    /\ Cardinality(Yields) = 4
    /\ Len(records) = 4

\* the indices of the calls that fetch an object
Fetches == { i \in 1..Len(calls) : calls[i].op = "get_object" }

\* every line but the header of the object the i-th call fetched was yielded
\* between that call and the j-th
Drained(i, j) ==
    \A n \in 2..Len(bucket.body) :
      \E m \in (i + 1)..(j - 1) : calls[m] = Call("yield", calls[i].arg, n)

\* C16: a fetch and a listing are issued only when every line but the header
\* of every object fetched before has been yielded to the caller; a line is
\* yielded of the object fetched last, with nothing but yields of its lines
\* since that fetch; at most one body is open at any moment; when __next__
\* has returned the n-th record the last call is the yield of its line, so
\* that no object but those up to its own has been fetched; and as long as
\* the caller does not call __next__ nothing is listed, fetched, opened or
\* closed
C16_PullOrdering ==
    /\ [](/\ handles \in {0, 1}
          /\ \A j \in 1..Len(calls) :
               calls[j].op # "yield" =>
                 \A i \in Fetches : i < j => Drained(i, j)
          /\ \A m \in Yields :
               \E i \in Fetches :
                 /\ i < m
                 /\ calls[i].arg = calls[m].arg
                 /\ \A q \in (i + 1)..(m - 1) : calls[q].op = "yield"
          /\ (~resumed /\ returned.kind = "record") =>
               /\ Len(calls) > 0
               /\ calls[Len(calls)].op = "yield"
               /\ Cardinality(Yields) = Len(records))
    /\ [][~resumed => UNCHANGED <<calls, handles, frame, records>>]_vars

\* the caller holds a record of a second object, whose body is open; the
\* first object was drained before the further page of the listing that
\* holds the second was asked for
C16_Witness ==
    /\ ~resumed
    /\ returned.kind = "record"
    /\ handles = 1
    /\ Cardinality(Fetches) = 2
    /\ Len(records) >= 3
    /\ \E i, j \in Fetches : \E q \in 1..Len(calls) :
         /\ i < q /\ q < j
         /\ calls[q].op = "list_keys"
         /\ calls[q].n = 2
         /\ Drained(i, q)

----------------------------------------------------------------------------
(* Properties of both readers *)

\* the records of the well-formed events of all pages, in order
WellFormedRecords ==
    LET all == Concat(pages, Len(pages))
        WellFormed(e) == LogRecords[e].exc = "none"
        good == SelectSeq(all, WellFormed)
    IN  [k \in 1..Len(good) |-> LogRecords[good[k]].rec]

\* C14: a caller that was raised the parse error of a malformed event and
\* went on calling next() until exhaustion has received the records of all
\* well-formed events, those after the malformed one included
C14_MalformedRecordNotFatal ==
    (thrown.type \in {"IndexError", "ValueError"} /\ outcome = StopIteration)
        => received = WellFormedRecords

----------------------------------------------------------------------------
(* Properties of the aggregation *)

\* the records taken so far, in order
Taken == [i \in 1..Len(consumed) |-> AggRecords[consumed[i]]]

\* the positions in the input of the records of a key tuple
Group(kt) == { i \in 1..Len(Taken) : KeyOf(Taken[i]) = kt }

\* a count as a number, None counting for nothing
Amount(v) == IF v = None THEN 0 ELSE IntValue(v)

\* the sum of a field over the first n records of the input that are of a
\* key tuple
RECURSIVE Total(_, _, _)
Total(field, kt, n) ==
    IF n = 0 THEN 0
    ELSE Total(field, kt, n - 1) +
         (IF n \in Group(kt) THEN Amount(Taken[n][field]) ELSE 0)

\* start is the earliest start and end the latest end of the group
Spans(summary, kt) ==
    LET starts == { Taken[i].start : i \in Group(kt) }
        ends == { Taken[i].end : i \in Group(kt) }
    IN  /\ summary.start \in starts
        /\ \A t \in starts : ~Earlier(t, summary.start)
        /\ summary.end \in ends
        /\ \A t \in ends : ~Earlier(summary.end, t)

\* C15: there is one summary for each key tuple that occurs among the
\* records taken and for no other; its start is the earliest start and its
\* end the latest end of the records of the group, its packets and bytes the
\* sums of theirs
C15_GroupByAndFold ==
    /\ DOMAIN flow_table = { KeyOf(Taken[i]) : i \in 1..Len(Taken) }
    /\ \A kt \in DOMAIN flow_table :
         /\ Spans(flow_table[kt], kt)
         /\ \A field \in {"packets", "bytes"} :
              /\ flow_table[kt][field] # None
              /\ IntValue(flow_table[kt][field]) = Total(field, kt, Len(Taken))

\* C15, amended: there is one summary for each key tuple without a None that
\* occurs among the records taken and for no other; its start is the
\* earliest start and its end the latest end of the records of the group,
\* its packets and bytes the sums of those the records of the group have,
\* and None when none of them has any
C15_GroupByAndFoldAmended ==
    /\ DOMAIN flow_table =
         { KeyOf(Taken[i]) :
             i \in { j \in 1..Len(Taken) :
                       \A f \in 1..Len(key_fields) : KeyOf(Taken[j])[f] # None } }
    /\ \A kt \in DOMAIN flow_table :
         /\ Spans(flow_table[kt], kt)
         /\ \A field \in {"packets", "bytes"} :
              IF \A i \in Group(kt) : Taken[i][field] = None
              THEN flow_table[kt][field] = None
              ELSE /\ flow_table[kt][field] # None
                   /\ IntValue(flow_table[kt][field]) = Total(field, kt, Len(Taken))

\* under the default key, two records that differ in interface_id and action
\* alone have folded into one summary, the later start first, and a record
\* without data between them has no summary
C15_Witness ==
    /\ key_fields = <<"srcaddr", "dstaddr", "srcport", "dstport", "protocol">>
    /\ consumed = <<2, 6, 4>>
    /\ Cardinality(DOMAIN flow_table) = 1
    /\ \E kt \in DOMAIN flow_table :
         /\ Group(kt) = {1, 3}
         /\ IntValue(flow_table[kt].packets) = 40
         /\ flow_table[kt].start = AggRecords[4].start
         /\ flow_table[kt].first = AggRecords[2]

====
